---------------------------- MODULE Spec2Model ----------------------------
(*************************************************************************)
(* A state-machine model of the glitch deterministic simulator:          *)
(* the run loop over the event queue (simulator.rs), the crash wrapper   *)
(* of a server (node.rs) and the network fault model (networking/).      *)
(*                                                                       *)
(* Instants and durations are integers (one unit = one millisecond).     *)
(* Every draw from the seeded RNG is a nondeterministic choice over a    *)
(* small set of outcomes; the user protocol (the DeterministicNode and   *)
(* DeterministicClient callbacks) is a nondeterministic choice over the  *)
(* messages a callback may emit and the flags it may set.                *)
(*************************************************************************)
EXTENDS Integers, Sequences, FiniteSets, TLC

(*************************************************************************)
(* Bounds of the model.                                                  *)
(*************************************************************************)
MaxServers == 2
\* messages the user protocol emits in one run (caps total_message_count)
MaxMessages == 4
\* largest outcome, in time units, of one exponential draw of sample_failure_time
MaxSample == 1
\* largest numerator of a latency multiplier draw (in units of 1 / MultDen)
MaxMult == 4
\* the virtual-time budget of the modelled configuration
MaxSimTime == 4
\* sends the network driver of NetSpec performs
MaxNetSends == 5
\* latest instant the network driver of NetSpec sends at
MaxNetTime == 4

\* sends the network driver of PartSpec performs
MaxPartSends == 2
\* latest instant the network drivers of PartSpec and SideSpec send at
MaxPartTime == 2
\* sends the network driver of SideSpec performs
MaxSideSends == 1

\* largest check_invariants_frequency of StrideSpec
MaxFrequency == 3

\* denominator of a latency multiplier draw
MultDen == 2

\* width in bits of the engine's usize counters
UsizeBits == 6

(*************************************************************************)
(* Option<T>: None is the empty sequence, Some(x) the sequence <<x>>.    *)
(*************************************************************************)
None == <<>>
Some(x) == <<x>>
Unwrap(o) == o[1]

Min(a, b) == IF a <= b THEN a ELSE b

\* `counter += 1` on a usize: the sum wraps at the width of the type (an
\* optimised build; a build with overflow checks aborts at the wrap instead)
UsizeModulus == 2 ^ UsizeBits
WrappingInc(n) == (n + 1) % UsizeModulus

\* rng.gen_bool(p), p in percent: the outcomes whose probability is not zero
Coins(p) == {b \in BOOLEAN : (b => p > 0) /\ (~b => p < 100)}

\* the outcomes of one draw of Exp(1 / mean), as a duration
SampleDraws == 0..MaxSample

\* the outcomes of one draw of latency_distribution, as numerators over MultDen
LatencyMults == 0..MaxMult

(*************************************************************************)
(* NodeId (node.rs): Node(i) orders before Client(j), then by index.     *)
(*************************************************************************)
NodeNode(i) == [tag |-> "Node", idx |-> i]
NodeClient(i) == [tag |-> "Client", idx |-> i]

NodeIdLess(a, b) ==
    \/ a.tag = "Node" /\ b.tag = "Client"
    \/ a.tag = b.tag /\ a.idx < b.idx

(*************************************************************************)
(* Configuration (config.rs, networking/config.rs).  Probabilities are   *)
(* in percent.                                                           *)
(*************************************************************************)
DefaultConfig ==
    [ tick_interval |-> 2,
      max_sim_time |-> MaxSimTime,
      check_invariants_frequency |-> 1,
      min_message_latency |-> 1,
      max_message_latency |-> 2,
      duplicate_probability |-> 10,
      hold_probability |-> 30,
      mean_time_between_link_failures |-> Some(1),
      mean_link_recovery_time |-> 1,
      mean_time_between_partitions |-> Some(1),
      mean_partition_recovery_time |-> 1,
      mean_time_between_failures |-> Some(1),
      mean_time_to_recover |-> 1 ]

\* util.rs sample_failure_time: start_time + the drawn duration
SampleFailureTime(start_time, mtf, draw) == start_time + draw

VARIABLES
    config,                 \* Simulator.config
    start_time,             \* Simulator.start_time
    nodes,                  \* Simulator.nodes: sequence of server wrappers
    clients,                \* Simulator.clients: sequence of user clients
    events,                 \* Simulator.events: the BTreeMap, as a set of entries
    network,                \* Simulator.network: links and partitioning
    elapsed,                \* Simulator.elapsed
    event_processed_count,  \* Simulator.event_processed_count
    total_event_count,      \* Simulator.total_event_count
    total_message_count,    \* Simulator.total_message_count
    pc,                     \* position of run(): running, returned_true, returned_false
    last,                   \* what the last step did (history)
    hist                    \* accumulated history of the run

vars == <<config, start_time, nodes, clients, events, network, elapsed,
          event_processed_count, total_event_count, total_message_count,
          pc, last, hist>>


(*************************************************************************)
(* Link (networking/link.rs).  A link is a record whose `state` names    *)
(* the LinkState variant and whose other fields are the variant's.       *)
(* A protocol message is [src, dst, uid]: uid is the emission number of  *)
(* the message, which the engine never reads.                            *)
(*************************************************************************)
LinkUp(expected_failure) ==
    [state |-> "Up", expected_failure |-> expected_failure]
LinkTempFailure(expected_recovery) ==
    [state |-> "TempFailure", expected_recovery |-> expected_recovery]
LinkTempHold(expected_recovery, queued_messages) ==
    [state |-> "TempHold", expected_recovery |-> expected_recovery,
     queued_messages |-> queued_messages]

\* gen_up_state scheduling a failure whether or not link failures are configured
GenUpState_IgnoresNone(now, cfg) ==
    {LinkUp(Some(SampleFailureTime(now, cfg.mean_link_recovery_time, d))) :
        d \in SampleDraws}

\* Link::gen_up_state: the fresh Up states the RNG can produce
GenUpState(now, cfg) ==
    IF cfg.mean_time_between_link_failures = None
    THEN {LinkUp(None)}
    ELSE {LinkUp(Some(SampleFailureTime(now, Unwrap(cfg.mean_time_between_link_failures), d))) :
            d \in SampleDraws}

\* Link::new
LinkNew(now, cfg) == GenUpState(now, cfg)

\* the held queue a link hands over when it leaves its state (the mem::swap)
ReleaseQueue(link) ==
    IF link.state = "TempHold" THEN link.queued_messages ELSE <<>>

\* the state a failing Up link enters, by the hold coin
FailedState(hold, expected_recovery) ==
    IF hold THEN LinkTempHold(expected_recovery, <<>>)
    ELSE LinkTempFailure(expected_recovery)

\* Link::check_state_transition: the set of [link, released] it can produce
CheckStateTransition(link, now, cfg) ==
    IF link.state = "Up"
    THEN IF link.expected_failure # None /\ now >= Unwrap(link.expected_failure)
         THEN {[link |-> FailedState(hold,
                            SampleFailureTime(now, cfg.mean_link_recovery_time, d)),
                released |-> <<>>] :
                  hold \in Coins(cfg.hold_probability), d \in SampleDraws}
         ELSE {[link |-> link, released |-> <<>>]}
    ELSE IF now >= link.expected_recovery
         THEN {[link |-> up, released |-> ReleaseQueue(link)] :
                  up \in GenUpState(now, cfg)}
         ELSE {[link |-> link, released |-> <<>>]}

\* calculate_delay without the final clamp to max_message_latency
CalculateDelay_Unclamped(cfg, mult) ==
    LET range == cfg.max_message_latency - cfg.min_message_latency
    IN  cfg.min_message_latency + ((range * mult) \div MultDen)

\* Link::calculate_delay for one latency draw mult / MultDen
CalculateDelay(cfg, mult) ==
    LET range == cfg.max_message_latency - cfg.min_message_latency
        delay == cfg.min_message_latency + ((range * mult) \div MultDen)
    IN  Min(delay, cfg.max_message_latency)

\* the duplicate coin copying the whole output instead of the incoming message
UpOutput_DuplicatesAll(released, message, duplicate) ==
    IF duplicate THEN Append(released, message) \o Append(released, message)
    ELSE Append(released, message)

\* the messages an Up link outputs: the released set, then the copies of the
\* incoming message
UpOutput(released, message, duplicate) ==
    IF duplicate THEN Append(Append(released, message), message)
    ELSE Append(released, message)

\* the incoming message put at the front of the hold queue
HoldPush_Lifo(queued_messages, message) == <<message>> \o queued_messages

\* the hold queue after an incoming message is held
HoldPush(queued_messages, message) == Append(queued_messages, message)

\* every way of giving each message of msgs its own sampled delay
WithDelays(msgs, cfg) ==
    {[i \in 1..Len(msgs) |-> [message |-> msgs[i], delay |-> ds[i]]] :
        ds \in [1..Len(msgs) -> {CalculateDelay(cfg, m) : m \in LatencyMults}]}

\* the second half of Link::send: the incoming message by the new state
ApplyIncoming(link, released, message, cfg) ==
    IF link.state = "Up"
    THEN UNION {{[link |-> link, out |-> o] :
                    o \in WithDelays(UpOutput(released, message, dup), cfg)} :
                 dup \in Coins(cfg.duplicate_probability)}
    ELSE IF link.state = "TempHold"
    THEN {[link |-> [link EXCEPT !.queued_messages = HoldPush(@, message)],
           out |-> <<>>]}
    ELSE {[link |-> link, out |-> <<>>]}

\* send advancing the link until no scheduled instant is reached any more
\* (at most twice here), keeping what the first transition released
LinkSend_Repeated(link, message, now, cfg) ==
    UNION {UNION {ApplyIncoming(u.link, t.released \o u.released, message, cfg) :
                    u \in CheckStateTransition(t.link, now, cfg)} :
             t \in CheckStateTransition(link, now, cfg)}

\* Link::send: the set of [link, out] it can produce
LinkSend(link, message, now, cfg) ==
    UNION {ApplyIncoming(t.link, t.released, message, cfg) :
             t \in CheckStateTransition(link, now, cfg)}

(*************************************************************************)
(* Partition (networking/partition.rs).                                  *)
(*************************************************************************)
PartitionNormal(expected_partition) ==
    [state |-> "Normal", expected_partition |-> expected_partition]
PartitionPartition(partioned_nodes, expected_recovery) ==
    [state |-> "Partition", partioned_nodes |-> partioned_nodes,
     expected_recovery |-> expected_recovery]

\* is_partitioned cutting every message that touches side_A
StateIsPartitioned_EitherSide(ps, from, to) ==
    IF ps.state = "Partition"
    THEN (from \in ps.partioned_nodes) \/ (to \in ps.partioned_nodes)
    ELSE FALSE

\* PartitionState::is_partitioned
StateIsPartitioned(ps, from, to) ==
    IF ps.state = "Partition"
    THEN (from \in ps.partioned_nodes) # (to \in ps.partioned_nodes)
    ELSE FALSE

\* the orders a shuffle can leave the elements of S in
Shuffles(S) ==
    {p \in [1..Cardinality(S) -> S] : \A i, j \in DOMAIN p : i # j => p[i] # p[j]}

\* sample_random_subset reading the node before each drawn index, the first
\* known node included
SampleRandomSubset_FromFirst(knownNodes, min_nodes, node_count, node_indices) ==
    {knownNodes[node_indices[i]] : i \in 1..Min(node_count, Len(node_indices))}

\* sample_random_subset for a drawn node_count and a drawn shuffle of the
\* candidate indices min_nodes .. len - 1 (zero-based, so knownNodes[idx + 1])
SampleRandomSubset(knownNodes, min_nodes, node_count, node_indices) ==
    {knownNodes[node_indices[i] + 1] : i \in 1..Min(node_count, Len(node_indices))}

\* the subsets sample_random_subset can return
SampleRandomSubsets(knownNodes, min_nodes) ==
    {SampleRandomSubset(knownNodes, min_nodes, node_count, node_indices) :
        node_count \in min_nodes..Len(knownNodes),
        node_indices \in Shuffles(min_nodes..(Len(knownNodes) - 1))}

\* the expected_partition a Normal state is given
NextPartition(now, cfg) ==
    IF cfg.mean_time_between_partitions = None
    THEN {None}
    ELSE {Some(SampleFailureTime(now, Unwrap(cfg.mean_time_between_partitions), d)) :
            d \in SampleDraws}

\* NetworkPartition::new
PartitionNew(now, knownNodes, cfg) ==
    {[partition_state |-> PartitionNormal(ep), nodes |-> knownNodes] :
        ep \in NextPartition(now, cfg)}

\* NetworkPartition::check_partition_state_transition: the partition states
\* it can leave
CheckPartitionStateTransition(ps, knownNodes, now, cfg) ==
    IF ps.state = "Normal"
    THEN IF ps.expected_partition # None /\ now >= Unwrap(ps.expected_partition)
         THEN {PartitionPartition(side,
                   SampleFailureTime(now, cfg.mean_partition_recovery_time, d)) :
                 side \in SampleRandomSubsets(knownNodes, 1), d \in SampleDraws}
         ELSE {ps}
    ELSE IF now >= ps.expected_recovery
         THEN {PartitionNormal(ep) : ep \in NextPartition(now, cfg)}
         ELSE {ps}

(*************************************************************************)
(* Network (networking/network.rs): links is the HashMap, a function     *)
(* from the canonical pairs in use to their Link.                        *)
(*************************************************************************)
\* the key of the link taken as the ordered pair of the message
Bidirectional_Directed(from, to) == <<from, to>>

\* the key of the link between from and to
Bidirectional(from, to) ==
    IF NodeIdLess(to, from) THEN <<to, from>> ELSE <<from, to>>

\* Network::new
NetworkNew(simulation_start, cfg, knownNodes) ==
    {[links |-> <<>>, partitioning |-> p] :
        p \in PartitionNew(simulation_start, knownNodes, cfg)}

\* links.entry(key).or_insert_with(Link::new): the links the entry can hold
LinkEntry(links, key, now, cfg) ==
    IF key \in DOMAIN links THEN {links[key]} ELSE LinkNew(now, cfg)

\* links with key bound to link
LinkInsert(links, key, link) ==
    [k \in DOMAIN links \cup {key} |-> IF k = key THEN link ELSE links[k]]

\* send handing a self-addressed message back at once, without a link
SendVia_LoopsBypassLink(net, ps, message, now, cfg) ==
    LET advanced == [net EXCEPT !.partitioning.partition_state = ps] IN
    IF message.src = message.dst
    THEN {[network |-> advanced, out |-> <<[message |-> message, delay |-> 0]>>]}
    ELSE IF StateIsPartitioned(ps, message.src, message.dst)
    THEN {[network |-> advanced, out |-> <<>>]}
    ELSE LET key == Bidirectional(message.src, message.dst) IN
         UNION {{[network |-> [advanced EXCEPT !.links = LinkInsert(@, key, r.link)],
                  out |-> r.out] :
                    r \in LinkSend(link, message, now, cfg)} :
                  link \in LinkEntry(net.links, key, now, cfg)}

\* Network::send after the partition state moved to ps: the set of
\* [network, out] it can produce
SendVia(net, ps, message, now, cfg) ==
    LET advanced == [net EXCEPT !.partitioning.partition_state = ps] IN
    IF StateIsPartitioned(ps, message.src, message.dst)
    THEN {[network |-> advanced, out |-> <<>>]}
    ELSE LET key == Bidirectional(message.src, message.dst) IN
         UNION {{[network |-> [advanced EXCEPT !.links = LinkInsert(@, key, r.link)],
                  out |-> r.out] :
                    r \in LinkSend(link, message, now, cfg)} :
                  link \in LinkEntry(net.links, key, now, cfg)}

\* Network::send: the set of [network, out] it can produce
NetworkSend(net, message, now, cfg) ==
    UNION {SendVia(net, ps, message, now, cfg) :
             ps \in CheckPartitionStateTransition(net.partitioning.partition_state,
                                                  net.partitioning.nodes, now, cfg)}

(*************************************************************************)
(* The user protocol: a request/response protocol shaped like the echo   *)
(* protocol of tests/echo.rs.  A client emits no message or one request  *)
(* to a server in tick(); a server emits no message or one response to a *)
(* client in process_message(); the other callbacks emit nothing.  All   *)
(* of it only while the run's message budget lasts.  A user node may end *)
(* its recovery in a callback and may start one in recover(); a client   *)
(* may change finished() when it processes a message.  A client with     *)
(* `replies` may also answer a message it processes, a client with       *)
(* `notes` may also send a message to itself in tick().                  *)
(*************************************************************************)
KnownNodes(server_count, client_count) ==
    [i \in 1..(server_count + client_count) |->
        IF i <= server_count THEN NodeNode(i - 1)
        ELSE NodeClient(i - server_count - 1)]

\* the nodes a message emitted by self may be addressed to
Destinations(self, known) ==
    {known[i] : i \in {j \in DOMAIN known : known[j].tag # self.tag}}

\* whether callback cb ("tick" or "process_message") of self may emit
Emits(self, cb) ==
    \/ self.tag = "Client" /\ cb = "tick"
    \/ self.tag = "Node" /\ cb = "process_message"

\* the message batches callback cb of self may return
Emissions(self, cb, known, budget) ==
    {<<>>} \cup (IF budget > 0 /\ Emits(self, cb)
                 THEN {<<[src |-> self, dst |-> d]>> : d \in Destinations(self, known)}
                 ELSE {})

\* is_recovering() after a tick or process_message callback
RecoveringAfterCallback(recovering) == IF recovering THEN BOOLEAN ELSE {FALSE}

(*************************************************************************)
(* Node (node.rs): the crash wrapper of a server.  `state` is the        *)
(* NodeState, `recovering` the wrapped node's is_recovering(),           *)
(* `recover_calls` counts the calls of the wrapped node's recover(),     *)
(* `calls` lists the methods of the wrapped node invoked, in order, by   *)
(* the wrapper's last tick or process_message call and `recovered_with`  *)
(* is the replica_count given to the last recover() (history).           *)
(*************************************************************************)
NodeNormal(failure_time) == [state |-> "Normal", failure_time |-> failure_time]
NodeFailed(recovery_time) == [state |-> "Failed", recovery_time |-> recovery_time]

\* a failure_time drawn whether or not crashes are configured
NextFailure_IgnoresNone(now, cfg) ==
    {Some(SampleFailureTime(now, cfg.mean_time_to_recover, d)) : d \in SampleDraws}

\* the failure_time a Normal state is given
NextFailure(now, cfg) ==
    IF cfg.mean_time_between_failures = None
    THEN {None}
    ELSE {Some(SampleFailureTime(now, Unwrap(cfg.mean_time_between_failures), d)) :
            d \in SampleDraws}

\* Node::new
NodeNew(cfg, start, replica_count) ==
    {[state |-> NodeNormal(ft), recovering |-> FALSE, replica_count |-> replica_count,
      recover_calls |-> 0, calls |-> <<>>, recovered_with |-> 0] : ft \in NextFailure(start, cfg)}

\* Node::is_up
IsUp(node) == ~(node.state.state = "Failed" \/ node.recovering)

\* the crash condition of a Normal wrapper
ShouldFail(now, failure_time, can_fail) == now >= failure_time /\ can_fail

\* has_failed moving Failed to Normal without calling recover()
HasFailed_NoRecover(node, now, can_fail, cfg) ==
    IF node.state.state = "Normal"
    THEN IF node.state.failure_time # None
            /\ now >= Unwrap(node.state.failure_time) /\ can_fail
         THEN {[node EXCEPT !.state = NodeFailed(
                    SampleFailureTime(now, Unwrap(cfg.mean_time_between_failures), d)),
                            !.calls = <<>>] :
                 d \in SampleDraws}
         ELSE {[node EXCEPT !.calls = <<>>]}
    ELSE IF now >= node.state.recovery_time
         THEN {[node EXCEPT !.state = NodeNormal(ft), !.calls = <<>>] :
                 ft \in NextFailure(now, cfg)}
         ELSE {[node EXCEPT !.calls = <<>>]}

\* Node::has_failed: the wrappers it can leave (it returns state.is_failed())
HasFailed(node, now, can_fail, cfg) ==
    IF node.state.state = "Normal"
    THEN IF node.state.failure_time # None
            /\ ShouldFail(now, Unwrap(node.state.failure_time), can_fail)
         THEN {[node EXCEPT !.state = NodeFailed(
                    SampleFailureTime(now, Unwrap(cfg.mean_time_between_failures), d)),
                            !.calls = <<>>] :
                 d \in SampleDraws}
         ELSE {[node EXCEPT !.calls = <<>>]}
    ELSE IF now >= node.state.recovery_time
         THEN {[node EXCEPT !.state = NodeNormal(ft),
                            !.recovering = r,
                            !.recover_calls = @ + 1,
                            !.recovered_with = node.replica_count,
                            !.calls = <<"recover">>] :
                 ft \in NextFailure(now, cfg), r \in BOOLEAN}
         ELSE {[node EXCEPT !.calls = <<>>]}

\* the wrapped node's callback invoked whatever the wrapper's state is
Delegate_IgnoresFailed(node, self, cb, known, budget) ==
    {[node |-> [node EXCEPT !.recovering = r, !.calls = Append(@, cb)],
      messages |-> m] :
        r \in RecoveringAfterCallback(node.recovering),
        m \in Emissions(self, cb, known, budget)}

\* the wrapped node's callback, or nothing when the wrapper is Failed: the
\* set of [node, messages]
Delegate(node, self, cb, known, budget) ==
    IF node.state.state = "Failed"
    THEN {[node |-> node, messages |-> <<>>]}
    ELSE {[node |-> [node EXCEPT !.recovering = r, !.calls = Append(@, cb)],
           messages |-> m] :
             r \in RecoveringAfterCallback(node.recovering),
             m \in Emissions(self, cb, known, budget)}

\* tick advancing the state with can_fail = true
NodeTick_CanFail(node, self, now, cfg, known, budget) ==
    UNION {Delegate(n, self, "tick", known, budget) :
             n \in HasFailed(node, now, TRUE, cfg)}

\* Node::tick
NodeTick(node, self, now, cfg, known, budget) ==
    UNION {Delegate(n, self, "tick", known, budget) :
             n \in HasFailed(node, now, FALSE, cfg)}

\* Node::process_message
NodeProcessMessage(node, self, now, can_fail, cfg, known, budget) ==
    UNION {Delegate(n, self, "process_message", known, budget) :
             n \in HasFailed(node, now, can_fail, cfg)}

\* finished() after callback cb of a client
FinishedAfterCallback(finished, cb) ==
    IF cb = "process_message" THEN BOOLEAN ELSE {finished}

\* the message batches process_message of a client that answers what it
\* receives (client.replies) may return besides those of Emissions
Replies(client, self, cb, known, budget) ==
    IF client.replies /\ cb = "process_message" /\ budget > 0
    THEN {<<[src |-> self, dst |-> d]>> : d \in Destinations(self, known)}
    ELSE {}

\* the message batches tick of a client that writes to itself (client.notes)
\* may return besides those of Emissions
Notes(client, self, cb, budget) ==
    IF client.notes /\ cb = "tick" /\ budget > 0
    THEN {<<[src |-> self, dst |-> self]>>}
    ELSE {}

\* a client callback (tick or process_message): the set of [client, messages]
ClientCallback(client, self, cb, known, budget) ==
    {[client |-> [client EXCEPT !.finished = f], messages |-> m] :
        f \in FinishedAfterCallback(client.finished, cb),
        m \in Emissions(self, cb, known, budget)
                \cup Replies(client, self, cb, known, budget)
                \cup Notes(client, self, cb, budget)}

(*************************************************************************)
(* Simulator (simulator.rs).  An entry of the event queue is             *)
(* [time, offset, kind, message, id, pushed_at]: (time, offset) is its   *)
(* EventTime key, message is None for a Tick, and pushed_at records the  *)
(* instant of the push_event that inserted it (history).                 *)
(*************************************************************************)
EventTick(time, offset, pushed_at) ==
    [time |-> time, offset |-> offset, kind |-> "Tick", message |-> None,
     id |-> 0, pushed_at |-> pushed_at]
EventMessage(time, offset, message, id, pushed_at) ==
    [time |-> time, offset |-> offset, kind |-> "Message", message |-> Some(message),
     id |-> id, pushed_at |-> pushed_at]

\* the derived Ord of EventTime: by time, then by offset
EventTimeLess(a, b) ==
    \/ a.time < b.time
    \/ a.time = b.time /\ a.offset < b.offset

\* BTreeMap::pop_first: the entry with the least key
PopFirst(evs) == CHOOSE e \in evs : \A f \in evs : f = e \/ EventTimeLess(e, f)

\* BTreeMap::insert: an entry with the same key is replaced
MapInsert(evs, e) ==
    {f \in evs : ~(f.time = e.time /\ f.offset = e.offset)} \cup {e}

\* the budget test with >= for >
BudgetExceeded_Inclusive(el, max_sim_time) == el >= max_sim_time

\* the budget test of run()
BudgetExceeded(el, max_sim_time) == el > max_sim_time

\* the exit test of run()
AllFinished(cs) == \A i \in DOMAIN cs : cs[i].finished

\* can_additional_node_fail with <= for <
CanAdditionalNodeFail_OffByOne(ns) ==
    LET max_failures == Len(ns) \div 2
        currently_failed == Cardinality({i \in DOMAIN ns : ~IsUp(ns[i])})
    IN  currently_failed <= max_failures

\* Simulator::can_additional_node_fail
CanAdditionalNodeFail(ns) ==
    LET max_failures == Len(ns) \div 2
        currently_failed == Cardinality({i \in DOMAIN ns : ~IsUp(ns[i])})
    IN  currently_failed < max_failures

\* push_event without the increment of total_event_count
PushEvent_StaleOffset(st, time, kind, message, id, now) ==
    LET offset == st.total_event_count
        e == IF kind = "Tick" THEN EventTick(time, offset, now)
             ELSE EventMessage(time, offset, message, id, now)
    IN  [st EXCEPT !.total_event_count = offset, !.events = MapInsert(@, e)]

\* Simulator::push_event on the engine state st
PushEvent(st, time, kind, message, id, now) ==
    LET offset == WrappingInc(st.total_event_count)
        e == IF kind = "Tick" THEN EventTick(time, offset, now)
             ELSE EventMessage(time, offset, message, id, now)
    IN  [st EXCEPT !.total_event_count = offset, !.events = MapInsert(@, e)]

\* the next Tick scheduled at tick_interval instead of now + tick_interval
NextTickTime_Absolute(now, cfg) == cfg.tick_interval

\* the instant the next Tick is scheduled at
NextTickTime(now, cfg) == now + cfg.tick_interval

\* the instant a delivery intent is scheduled at
DeliveryTime(now, delay) == now + delay

\* the inner loop of run() stamping every delivery intent's message with the
\* number of the message that is being sent
RECURSIVE PushDeliveries_Restamped(_, _, _, _)
PushDeliveries_Restamped(st, out, message_id, now) ==
    IF out = <<>> THEN st
    ELSE PushDeliveries_Restamped(
             PushEvent(st, DeliveryTime(now, Head(out).delay), "Message",
                       [Head(out).message EXCEPT !.uid = message_id],
                       message_id, now),
             Tail(out), message_id, now)

\* the inner loop of run(): one push_event per delivery intent, in order
RECURSIVE PushDeliveries(_, _, _, _)
PushDeliveries(st, out, message_id, now) ==
    IF out = <<>> THEN st
    ELSE PushDeliveries(
             PushEvent(st, DeliveryTime(now, Head(out).delay), "Message",
                       Head(out).message, message_id, now),
             Tail(out), message_id, now)

\* what one Network.send did, for the history: the partition state and the
\* link of the pair before and after it (None when the pair has no link)
LinkOf(net, message) ==
    LET key == Bidirectional(message.src, message.dst) IN
    IF key \in DOMAIN net.links THEN Some(net.links[key]) ELSE None

SendRecord(before, after, message, now, out) ==
    [message |-> message, now |-> now,
     partitioned |-> StateIsPartitioned(after.partitioning.partition_state,
                                        message.src, message.dst),
     partition_before |-> before.partitioning.partition_state,
     partition_after |-> after.partitioning.partition_state,
     before |-> LinkOf(before, message), after |-> LinkOf(after, message),
     out |-> out]

\* the outer loop of run() over the emitted messages: the engine states it
\* can leave.  The message sent with message_id n carries uid n.
RECURSIVE SendAll(_, _, _, _)
SendAll(st, messages, now, cfg) ==
    IF messages = <<>> THEN {st}
    ELSE LET message_id == WrappingInc(st.total_message_count)
             msg == [src |-> Head(messages).src, dst |-> Head(messages).dst,
                     uid |-> message_id]
             counted == [st EXCEPT !.total_message_count = message_id]
         IN  UNION {SendAll(
                        [PushDeliveries([counted EXCEPT !.network = r.network],
                                        r.out, message_id, now)
                           EXCEPT !.sends = Append(@,
                               SendRecord(st.network, r.network, msg, now, r.out))],
                        Tail(messages), now, cfg) :
                      r \in NetworkSend(st.network, msg, now, cfg)}

\* the server loop of a Tick: the set of [nodes, messages]
RECURSIVE TickNodes(_, _, _, _, _, _, _)
TickNodes(ns, i, now, cfg, known, acc, budget) ==
    IF i > Len(ns) THEN {[nodes |-> ns, messages |-> acc]}
    ELSE UNION {TickNodes([ns EXCEPT ![i] = r.node], i + 1, now, cfg, known,
                          acc \o r.messages, budget - Len(r.messages)) :
                  r \in NodeTick(ns[i], NodeNode(i - 1), now, cfg, known, budget)}

\* the client loop of a Tick: the set of [clients, messages]
RECURSIVE TickClients(_, _, _, _, _)
TickClients(cs, i, known, acc, budget) ==
    IF i > Len(cs) THEN {[clients |-> cs, messages |-> acc]}
    ELSE UNION {TickClients([cs EXCEPT ![i] = r.client], i + 1, known,
                            acc \o r.messages, budget - Len(r.messages)) :
                  r \in ClientCallback(cs[i], NodeClient(i - 1), "tick", known, budget)}

\* handle_event for a Tick: the set of [st, messages]
HandleTick(st, now, cfg, known, budget) ==
    UNION {{[st |-> PushEvent([st EXCEPT !.nodes = n.nodes, !.clients = c.clients],
                              NextTickTime(now, cfg), "Tick", None, 0, now),
             messages |-> n.messages \o c.messages] :
               c \in TickClients(st.clients, 1, known, <<>>, budget - Len(n.messages))} :
             n \in TickNodes(st.nodes, 1, now, cfg, known, <<>>, budget)}

\* handle_event for a Message: the set of [st, messages]
HandleMessage(st, msg, now, cfg, known, budget) ==
    IF msg.dst.tag = "Node"
    THEN LET i == msg.dst.idx + 1
             can_fail == CanAdditionalNodeFail(st.nodes)
         IN  {[st |-> [st EXCEPT !.nodes[i] = r.node], messages |-> r.messages] :
                r \in NodeProcessMessage(st.nodes[i], msg.dst, now, can_fail, cfg,
                                         known, budget)}
    ELSE LET i == msg.dst.idx + 1
         IN  {[st |-> [st EXCEPT !.clients[i] = r.client], messages |-> r.messages] :
                r \in ClientCallback(st.clients[i], msg.dst, "process_message", known,
                                     budget)}

(*************************************************************************)
(* History kept for the properties.  hist: the events handle_event was   *)
(* called with (in order), the uids of the messages a link held, the     *)
(* uids of the delivery intents the links returned (in order), the       *)
(* invariant checker's calls (each with the number n of the popped event *)
(* and the count of messages sent before it), the messages the callbacks *)
(* emitted (in the order they were passed to Network.send), the uids of  *)
(* the messages a send reported partitioned (cut) and of those a link    *)
(* dropped (lost).  last: the last step, with the event it popped, the   *)
(* partition state it found, the messages the callbacks emitted and what *)
(* each Network.send did.                                                *)
(*************************************************************************)
RECURSIVE OutUids(_)
OutUids(out) ==
    IF out = <<>> THEN <<>> ELSE <<Head(out).message.uid>> \o OutUids(Tail(out))

\* a send whose message the link dropped
WasLost(r) ==
    /\ ~r.partitioned
    /\ r.after # None
    /\ Unwrap(r.after).state = "TempFailure"

\* a send whose message the link kept in its hold queue
WasHeld(r) ==
    /\ ~r.partitioned
    /\ r.after # None
    /\ Unwrap(r.after).state = "TempHold"

RECURSIVE HistAfterSends(_, _)
HistAfterSends(h, sends) ==
    IF sends = <<>> THEN h
    ELSE LET r == Head(sends) IN
         HistAfterSends(
             [h EXCEPT !.held = IF WasHeld(r) THEN @ \cup {r.message.uid} ELSE @,
                       !.out_uids = @ \o OutUids(r.out),
                       !.emitted = Append(@, r.message),
                       !.cut = IF r.partitioned THEN @ \cup {r.message.uid} ELSE @,
                       !.lost = IF WasLost(r) THEN @ \cup {r.message.uid} ELSE @],
             Tail(sends))

InitHist ==
    [dispatched |-> <<>>, held |-> {}, out_uids |-> <<>>, invariant_checks |-> <<>>,
     emitted |-> <<>>, cut |-> {}, lost |-> {}]

LastStep(op, event, now, partition, messages, sends) ==
    [op |-> op, event |-> event, now |-> now, partition |-> partition,
     messages |-> messages, sends |-> sends]

\* the instant the run starts at
StartInstant == 1

ServerCounts == 1..MaxServers

\* the initial states of the clients the user hands over: clients that send
\* requests in tick() only
ClientsNew(client_count) ==
    [1..client_count -> [finished : BOOLEAN, replies : {FALSE}, notes : {FALSE}]]

RECURSIVE NodesNew(_, _, _)
\* the wrappers Simulator::new builds for `remaining` more servers
NodesNew(cfg, start, remaining) ==
    IF remaining = 0 THEN {<<>>}
    ELSE UNION {{<<n>> \o rest : rest \in NodesNew(cfg, start, remaining - 1)} :
                  n \in NodeNew(cfg, start, 0)}

\* Simulator::new
SimulatorNew(cfg, start, server_count, user_clients) ==
    /\ config = cfg
    /\ start_time = start
    /\ nodes \in {[i \in DOMAIN ns |-> [ns[i] EXCEPT !.replica_count = server_count]] :
                    ns \in NodesNew(cfg, start, server_count)}
    /\ clients \in user_clients
    /\ network \in NetworkNew(start, cfg, KnownNodes(server_count, Len(clients)))
    /\ events = {EventTick(start, 0, start)}
    /\ elapsed = 0
    /\ event_processed_count = 0
    /\ total_event_count = 0
    /\ total_message_count = 0
    /\ pc = "running"
    /\ last = LastStep("New", None, start, network.partitioning.partition_state,
                       <<>>, <<>>)
    /\ hist = InitHist

\* one server and one client, as in tests/echo.rs, under every fault
Init == SimulatorNew(DefaultConfig, StartInstant, 1, ClientsNew(1))

(*************************************************************************)
(* run(): one action per way an iteration of the loop can go.  The queue *)
(* always holds the pending Tick while run() has not returned, so the    *)
(* exit the loop takes on an empty queue is not an action.               *)
(*************************************************************************)
Known == network.partitioning.nodes

EngineState ==
    [nodes |-> nodes, clients |-> clients, events |-> events \ {PopFirst(events)},
     network |-> network, total_event_count |-> total_event_count,
     total_message_count |-> total_message_count, sends |-> <<>>]

\* the stride test with the popped events counted from 0
StrideHit_FromZero(count, frequency) == (count - 1) % frequency = 0

\* the stride test of the invariant checker
StrideHit(count, frequency) == count % frequency = 0

\* check_invariants() called for the n-th popped event after `sent` messages
\* went through the network
CheckInvariants(h, n, sent) ==
    [h EXCEPT !.invariant_checks = Append(@, [n |-> n, sent |-> sent])]

\* the popped event is past the budget: return false
ReturnTimeout ==
    /\ pc = "running"
    /\ events # {}
    /\ LET e == PopFirst(events)
           el == e.time - start_time
       IN  /\ BudgetExceeded(el, config.max_sim_time)
           /\ events' = events \ {e}
           /\ event_processed_count' = WrappingInc(event_processed_count)
           /\ elapsed' = el
           /\ pc' = "returned_false"
           /\ last' = LastStep("ReturnFalse", Some(e), e.time,
                                network.partitioning.partition_state, <<>>, <<>>)
    /\ UNCHANGED <<config, start_time, nodes, clients, network, total_event_count,
                   total_message_count, hist>>

\* every client is finished: check the invariants and return true
ReturnFinished ==
    /\ pc = "running"
    /\ events # {}
    /\ LET e == PopFirst(events)
           el == e.time - start_time
       IN  /\ ~BudgetExceeded(el, config.max_sim_time)
           /\ AllFinished(clients)
           /\ events' = events \ {e}
           /\ event_processed_count' = WrappingInc(event_processed_count)
           /\ elapsed' = el
           /\ pc' = "returned_true"
           /\ hist' = CheckInvariants(hist, WrappingInc(event_processed_count),
                                       total_message_count)
           /\ last' = LastStep("ReturnTrue", Some(e), e.time,
                                network.partitioning.partition_state, <<>>, <<>>)
    /\ UNCHANGED <<config, start_time, nodes, clients, network, total_event_count,
                   total_message_count>>

\* the rest of an iteration after handle_event returned h and every emitted
\* message went through the network: the engine's fields
Advance(e, h, final) ==
    /\ nodes' = final.nodes
    /\ clients' = final.clients
    /\ events' = final.events
    /\ network' = final.network
    /\ total_event_count' = final.total_event_count
    /\ total_message_count' = final.total_message_count
    /\ event_processed_count' = WrappingInc(event_processed_count)
    /\ elapsed' = e.time - start_time
    /\ pc' = "running"
    /\ last' = LastStep(e.kind, Some(e), e.time, network.partitioning.partition_state,
                         h.messages, final.sends)
    /\ UNCHANGED <<config, start_time>>

\* the rest of an iteration, with its record in the history: the invariant
\* check by stride, the dispatched event, the sends
Finish(e, h, final) ==
    /\ Advance(e, h, final)
    /\ hist' = LET checked == IF StrideHit(WrappingInc(event_processed_count),
                                           config.check_invariants_frequency)
                              THEN CheckInvariants(hist,
                                       WrappingInc(event_processed_count),
                                       total_message_count)
                              ELSE hist
                   handled == [checked EXCEPT !.dispatched = Append(@,
                                  [time |-> e.time, offset |-> e.offset, kind |-> e.kind])]
               IN  HistAfterSends(handled, final.sends)

\* the destination of a dispatched message is an index of nodes or clients
IndexInBounds(msg) ==
    IF msg.dst.tag = "Node" THEN msg.dst.idx < Len(nodes)
    ELSE msg.dst.idx < Len(clients)

\* the popped event is one the loop goes on to handle
Handled(e, kind) ==
    /\ ~BudgetExceeded(e.time - start_time, config.max_sim_time)
    /\ ~AllFinished(clients)
    /\ e.kind = kind

\* handle_event on the popped event e: the set of [st, messages]
HandleEvent(e, addressable, budget) ==
    IF e.kind = "Tick"
    THEN HandleTick(EngineState, e.time, config, addressable, budget)
    ELSE HandleMessage(EngineState, Unwrap(e.message), e.time, config, addressable,
                       budget)

\* one iteration of run() that handles an event of the given kind and neither
\* returns nor aborts.  The user protocol addresses the nodes of `addressable`
\* and emits at most `budget` more messages; `recorded` says whether the
\* iteration goes into the history.
Iterate(kind, addressable, budget, recorded) ==
    /\ pc = "running"
    /\ events # {}
    /\ LET e == PopFirst(events) IN
       /\ Handled(e, kind)
       /\ kind = "Message" => IndexInBounds(Unwrap(e.message))
       /\ config.check_invariants_frequency # 0
       /\ \E h \in HandleEvent(e, addressable, budget) :
            \E final \in SendAll(h.st, h.messages, e.time, config) :
                IF recorded THEN Finish(e, h, final)
                ELSE Advance(e, h, final) /\ UNCHANGED hist

\* the popped event is a Tick
DispatchTick == Iterate("Tick", Known, MaxMessages - total_message_count, TRUE)

\* the popped event is a Message
DispatchMessage == Iterate("Message", Known, MaxMessages - total_message_count, TRUE)

Next == ReturnTimeout \/ ReturnFinished \/ DispatchTick \/ DispatchMessage

Spec == Init /\ [][Next]_vars

(*************************************************************************)
(* The network on its own: Network.send called with any message between  *)
(* two known nodes at instants that never go back, as run() calls it. The *)
(* instant of the last call is start_time + elapsed and the message sent *)
(* n-th carries uid n.                                                   *)
(*************************************************************************)
\* how far the clock moves between two sends
NetSteps == 0..1

\* one call of Network.send by a driver that performs at most max_sends calls
\* up to the instant start_time + max_time, between any two known nodes, or
\* from a node to itself when self_loops allows it
NetDrive(max_sends, max_time, self_loops) ==
    /\ total_message_count < max_sends
    /\ \E step \in NetSteps, i, j \in DOMAIN Known :
         LET now == start_time + elapsed + step
             msg == [src |-> Known[i], dst |-> Known[j], uid |-> WrappingInc(total_message_count)]
         IN  /\ i = j => self_loops
             /\ now - start_time <= max_time
             /\ \E r \in NetworkSend(network, msg, now, config) :
                  LET rec == SendRecord(network, r.network, msg, now, r.out) IN
                  /\ network' = r.network
                  /\ elapsed' = now - start_time
                  /\ total_message_count' = WrappingInc(total_message_count)
                  /\ last' = LastStep("Send", None, now,
                                       network.partitioning.partition_state,
                                       <<msg>>, <<rec>>)
                  \* no callback emits here: the record of emissions stays empty
                  /\ hist' = [HistAfterSends(hist, <<rec>>) EXCEPT !.emitted = <<>>]
    /\ UNCHANGED <<config, start_time, nodes, clients, events, event_processed_count,
                   total_event_count, pc>>

NetSend == NetDrive(MaxNetSends, MaxNetTime, FALSE)

\* a configuration without partitions and crashes and with one latency:
\* Network.send is the link's send
LinkConfig ==
    [DefaultConfig EXCEPT !.mean_time_between_partitions = None,
                          !.mean_time_between_failures = None,
                          !.min_message_latency = 2]

LinkInit ==
    /\ SimulatorNew(LinkConfig, StartInstant, 1, ClientsNew(1))
    /\ ~AllFinished(clients)

LinkSpec == LinkInit /\ [][NetSend]_vars

(*************************************************************************)
(* The network under every network fault, between one server and one     *)
(* client: every message the two can exchange, a node's messages to      *)
(* itself included.                                                      *)
(*************************************************************************)
PartConfig ==
    [DefaultConfig EXCEPT !.mean_time_between_failures = None,
                          !.min_message_latency = 2]

PartInit ==
    /\ SimulatorNew(PartConfig, StartInstant, 1, ClientsNew(1))
    /\ ~AllFinished(clients)

PartSend == NetDrive(MaxPartSends, MaxPartTime, TRUE)

PartSpec == PartInit /\ [][PartSend]_vars

(*************************************************************************)
(* Partitions on their own, over any set of known nodes: no server to    *)
(* MaxServers servers and one client, links that never fail and never    *)
(* duplicate.                                                            *)
(*************************************************************************)
SideConfig ==
    [PartConfig EXCEPT !.mean_time_between_link_failures = None,
                       !.duplicate_probability = 0]

SideInit ==
    \E server_count \in 0..MaxServers :
        /\ SimulatorNew(SideConfig, StartInstant, server_count, ClientsNew(1))
        /\ ~AllFinished(clients)

SideSend == NetDrive(MaxSideSends, MaxPartTime, TRUE)

SideSpec == SideInit /\ [][SideSend]_vars

(*************************************************************************)
(* Crashes on their own: any number of servers and one client over a     *)
(* network without link failures, partitions and duplicates (it still    *)
(* delays).                                                              *)
(*************************************************************************)
CrashConfig ==
    [DefaultConfig EXCEPT !.mean_time_between_partitions = None,
                          !.mean_time_between_link_failures = None,
                          !.duplicate_probability = 0]

CrashInit ==
    \E server_count \in ServerCounts :
        SimulatorNew(CrashConfig, StartInstant, server_count, ClientsNew(1))

CrashSpec == CrashInit /\ [][Next]_vars

(*************************************************************************)
(* Crashes disabled: any number of servers and one client over the       *)
(* network of CrashSpec, with mean_time_between_failures = None.         *)
(*************************************************************************)
NoCrashConfig == [CrashConfig EXCEPT !.mean_time_between_failures = None]

NoCrashInit ==
    \E server_count \in ServerCounts :
        SimulatorNew(NoCrashConfig, StartInstant, server_count, ClientsNew(1))

NoCrashSpec == NoCrashInit /\ [][Next]_vars

(*************************************************************************)
(* The invariant checker's stride: one server and one client over the    *)
(* network of CrashSpec, without crashes, for every                      *)
(* check_invariants_frequency from 1 to MaxFrequency.                    *)
(*************************************************************************)
StrideInit ==
    \E frequency \in 1..MaxFrequency :
        SimulatorNew([NoCrashConfig EXCEPT !.check_invariants_frequency = frequency],
                     StartInstant, 1, ClientsNew(1))

StrideSpec == StrideInit /\ [][Next]_vars

(*************************************************************************)
(* The reliable network of test_reliable_network: no link failures, no   *)
(* partitions and no crashes; messages are still delayed and duplicated. *)
(*************************************************************************)
ReliableConfig ==
    [DefaultConfig EXCEPT !.mean_time_between_partitions = None,
                          !.mean_time_between_link_failures = None,
                          !.mean_time_between_failures = None]

\* one server and one client, as in tests/echo.rs
ReliableInit == SimulatorNew(ReliableConfig, StartInstant, 1, ClientsNew(1))

ReliableSpec == ReliableInit /\ [][Next]_vars

(*************************************************************************)
(* A protocol that keeps talking over a network without latency: the     *)
(* client answers what it receives (as the server does), every delay is  *)
(* min_message_latency = max_message_latency = 0, and nothing caps the   *)
(* number of messages of a run.  The history is not kept.  run() keeps   *)
(* iterating while it has not returned: weak fairness of its iteration.  *)
(*************************************************************************)
ChattyClientsNew(client_count) ==
    [1..client_count -> [finished : BOOLEAN, replies : {TRUE}, notes : {FALSE}]]

ChattyConfig ==
    [DefaultConfig EXCEPT !.mean_time_between_partitions = None,
                          !.mean_time_between_link_failures = None,
                          !.mean_time_between_failures = None,
                          !.duplicate_probability = 0,
                          !.min_message_latency = 0,
                          !.max_message_latency = 0]

ChattyInit == SimulatorNew(ChattyConfig, StartInstant, 1, ChattyClientsNew(1))

\* the popped event is a Tick; every callback may emit
ChattyTick == Iterate("Tick", Known, 1, FALSE)

\* the popped event is a Message; every callback may emit
ChattyMessage == Iterate("Message", Known, 1, FALSE)

ChattyNext == ReturnTimeout \/ ReturnFinished \/ ChattyTick \/ ChattyMessage

ChattySpec == ChattyInit /\ [][ChattyNext]_vars /\ WF_vars(ChattyNext)

(*************************************************************************)
(* Self-addressed messages: one server and a client that writes only to  *)
(* itself, under every network fault, with latencies from zero.          *)
(*************************************************************************)
LoopClientsNew(client_count) ==
    [1..client_count -> [finished : BOOLEAN, replies : {FALSE}, notes : {TRUE}]]

LoopConfig ==
    [DefaultConfig EXCEPT !.mean_time_between_failures = None,
                          !.min_message_latency = 0,
                          !.max_message_latency = 1]

LoopInit == SimulatorNew(LoopConfig, StartInstant, 1, LoopClientsNew(1))

\* the popped event is a Tick; no callback addresses another node
LoopTick == Iterate("Tick", <<>>, MaxMessages - total_message_count, TRUE)

\* the popped event is a Message; no callback addresses another node
LoopMessage == Iterate("Message", <<>>, MaxMessages - total_message_count, TRUE)

LoopNext == ReturnTimeout \/ ReturnFinished \/ LoopTick \/ LoopMessage

LoopSpec == LoopInit /\ [][LoopNext]_vars

(*************************************************************************)
(* The aborts of the loop's own steps (Rust panics): the index of        *)
(* handle_event into nodes or clients, and the remainder of the stride   *)
(* test.  The protocol here may address a server one past the last, and  *)
(* check_invariants_frequency is any of 0, 1, 2; the network is the      *)
(* reliable one without duplicates.                                      *)
(*************************************************************************)
\* self.nodes[node_id] / self.clients[client_id] with an index out of bounds
AbortIndex ==
    /\ pc = "running"
    /\ events # {}
    /\ LET e == PopFirst(events) IN
       /\ Handled(e, "Message")
       /\ ~IndexInBounds(Unwrap(e.message))
       /\ events' = events \ {e}
       /\ event_processed_count' = WrappingInc(event_processed_count)
       /\ elapsed' = e.time - start_time
       /\ pc' = "aborted"
       /\ last' = LastStep("AbortIndex", Some(e), e.time,
                            network.partitioning.partition_state, <<>>, <<>>)
    /\ UNCHANGED <<config, start_time, nodes, clients, network, total_event_count,
                   total_message_count, hist>>

\* event_processed_count % 0, after handle_event returned
AbortStride ==
    /\ pc = "running"
    /\ events # {}
    /\ LET e == PopFirst(events) IN
       /\ Handled(e, e.kind)
       /\ e.kind = "Message" => IndexInBounds(Unwrap(e.message))
       /\ config.check_invariants_frequency = 0
       /\ \E h \in HandleEvent(e, Known, MaxMessages - total_message_count) :
            /\ nodes' = h.st.nodes
            /\ clients' = h.st.clients
            /\ events' = h.st.events
            /\ total_event_count' = h.st.total_event_count
            /\ last' = LastStep("AbortStride", Some(e), e.time,
                                 network.partitioning.partition_state, h.messages, <<>>)
       /\ event_processed_count' = WrappingInc(event_processed_count)
       /\ elapsed' = e.time - start_time
       /\ pc' = "aborted"
    /\ UNCHANGED <<config, start_time, network, total_message_count, hist>>

\* the ids the straying protocol addresses: the known ones and Node(len)
Addressable == Append(Known, NodeNode(Len(nodes)))

StrayTick == Iterate("Tick", Addressable, MaxMessages - total_message_count, TRUE)

StrayMessage == Iterate("Message", Addressable, MaxMessages - total_message_count, TRUE)

\* the values of check_invariants_frequency
Frequencies == 0..2

AbortInit ==
    \E frequency \in Frequencies :
        SimulatorNew([CrashConfig EXCEPT !.mean_time_between_failures = None,
                                         !.check_invariants_frequency = frequency],
                     StartInstant, 1, ClientsNew(1))

AbortNext ==
    \/ ReturnTimeout
    \/ ReturnFinished
    \/ StrayTick
    \/ StrayMessage
    \/ AbortIndex
    \/ AbortStride

AbortSpec == AbortInit /\ [][AbortNext]_vars

(*************************************************************************)
(* Construction on any lists of user nodes and clients: Simulator::new   *)
(* first validates the ids they report.  Before construction nothing of  *)
(* the simulator exists; `last` holds the ids the user's nodes and       *)
(* clients report, in list order.                                        *)
(*************************************************************************)
\* the ids a user node or client may report
IdChoices == {NodeNode(i) : i \in 0..(MaxServers - 1)}
                \cup {NodeClient(i) : i \in 0..(MaxServers - 1)}

\* the lists of reported ids, of up to MaxServers entries
IdLists == UNION {[1..n -> IdChoices] : n \in 0..MaxServers}

\* (0..len).map(NodeId::Node) and (0..len).map(NodeId::Client)
SequentialNodes(len) == [i \in 1..len |-> NodeNode(i - 1)]
SequentialClients(len) == [i \in 1..len |-> NodeClient(i - 1)]

\* validate_node_ids comparing the ids as sets
ValidateNodeIds_AsSets(node_ids, client_ids) ==
    /\ {node_ids[i] : i \in DOMAIN node_ids}
          = {NodeNode(i - 1) : i \in DOMAIN node_ids}
    /\ {client_ids[i] : i \in DOMAIN client_ids}
          = {NodeClient(i - 1) : i \in DOMAIN client_ids}

\* validate_node_ids: TRUE when neither assert_eq! fails
ValidateNodeIds(node_ids, client_ids) ==
    /\ node_ids = SequentialNodes(Len(node_ids))
    /\ client_ids = SequentialClients(Len(client_ids))

ValidateInit ==
    /\ \E node_ids, client_ids \in IdLists :
         last = [op |-> "Ids", node_ids |-> node_ids, client_ids |-> client_ids]
    /\ pc = "new"
    /\ config = ReliableConfig
    /\ start_time = StartInstant
    /\ nodes = <<>>
    /\ clients = <<>>
    /\ events = {}
    /\ network = None
    /\ elapsed = 0
    /\ event_processed_count = 0
    /\ total_event_count = 0
    /\ total_message_count = 0
    /\ hist = InitHist

\* Simulator::new on the reported ids: the assertion fails, or the fields are
\* built
Construct ==
    /\ pc = "new"
    /\ IF ValidateNodeIds(last.node_ids, last.client_ids)
       THEN LET server_count == Len(last.node_ids)
                client_count == Len(last.client_ids)
            IN  /\ nodes' \in {[i \in DOMAIN ns |->
                                  [ns[i] EXCEPT !.replica_count = server_count]] :
                                ns \in NodesNew(config, start_time, server_count)}
                /\ clients' \in ClientsNew(client_count)
                /\ network' \in NetworkNew(start_time, config,
                                           KnownNodes(server_count, client_count))
                /\ events' = {EventTick(start_time, 0, start_time)}
                /\ pc' = "running"
       ELSE /\ pc' = "aborted"
            /\ UNCHANGED <<nodes, clients, network, events>>
    /\ UNCHANGED <<config, start_time, elapsed, event_processed_count,
                   total_event_count, total_message_count, last, hist>>

ValidateSpec == ValidateInit /\ [][Construct]_vars

(*************************************************************************)
(* Properties.                                                           *)
(*************************************************************************)
FailedServers == {i \in DOMAIN nodes : nodes[i].state.state = "Failed"}

\* C1 (quorum preservation): in every reachable state of a run, for every
\* number of servers, the number of server wrappers in state Failed is at most
\* floor(server_count / 2); a single server is never Failed.
C1_QuorumPreservation == Cardinality(FailedServers) <= Len(nodes) \div 2

\* the cap refused a crash: one of two servers is Failed and the other, which
\* never crashed, has just processed a message at or after its failure_time
C1_Witness ==
    /\ Len(nodes) = 2
    /\ Cardinality(FailedServers) = 1
    /\ last.op = "Message"
    /\ Unwrap(last.event).message[1].dst.tag = "Node"
    /\ LET n == nodes[Unwrap(last.event).message[1].dst.idx + 1] IN
       /\ n.state.state = "Normal"
       /\ n.recover_calls = 0
       /\ n.state.failure_time # None
       /\ last.now >= Unwrap(n.state.failure_time)

\* C2 (partition cut): no Message event is dispatched while the partition state
\* is Partition{side_A} and exactly one of its source and destination is in
\* side_A, whenever the message was sent.  Stated for the dispatches at which
\* the partition is in force by the clock too (expected_recovery is not reached).
C2_PartitionCut ==
    (last.op = "Message" /\ last.partition.state = "Partition"
        /\ last.now < last.partition.expected_recovery) =>
        ~StateIsPartitioned(last.partition, Unwrap(last.event).message[1].src,
                            Unwrap(last.event).message[1].dst)

\* C3 (return value): run() returns true only with every client finished, and
\* it returns true whenever every client is finished as a result of the events
\* dispatched within the budget (so it never returns false with every client
\* finished).
C3_TrueIffFinished ==
    /\ pc = "returned_true" => AllFinished(clients)
    /\ pc = "returned_false" => ~AllFinished(clients)

\* C4 (time budget): an iteration that pops an event with elapsed time greater
\* than max_sim_time returns false and calls no callback, sends nothing and
\* enqueues nothing; an iteration that pops an event within the budget does not
\* return false.
C4_TimeBudget ==
    [][(pc = "running" /\ events # {}) =>
         LET e == PopFirst(events) IN
         IF e.time - start_time > config.max_sim_time
         THEN /\ pc' = "returned_false"
              /\ events' = events \ {e}
              /\ UNCHANGED <<nodes, clients, network, total_event_count,
                             total_message_count, hist>>
         ELSE pc' # "returned_false"]_vars

\* run() returned false on an event past the budget after it dispatched an event
\* at exactly max_sim_time
C4_Witness ==
    /\ pc = "returned_false"
    /\ elapsed > config.max_sim_time
    /\ \E k \in DOMAIN hist.dispatched :
         hist.dispatched[k].time - start_time = config.max_sim_time

\* the sends of the last step in which the link left TempHold
LeftHold(r) ==
    /\ r.before # None
    /\ Unwrap(r.before).state = "TempHold"
    /\ Unwrap(r.after).state # "TempHold"

SeqCount(seq, x) == Cardinality({i \in DOMAIN seq : seq[i] = x})

\* C6 (FIFO hold): the Link.send that leaves TempHold returns the held messages
\* in the order they were sent into the hold (uids are numbered in send order),
\* all of them, and before the copies of the incoming message.
C6_FifoHold ==
    \A k \in DOMAIN last.sends :
        LET r == last.sends[k]
            uids == OutUids(r.out)
            released == SeqCount(uids, r.message.uid)
            n == Len(uids) - released
            before == SubSeq(hist.out_uids, 1, Len(hist.out_uids) - Len(uids))
        IN  LeftHold(r) =>
              /\ \A i \in 1..n : uids[i] # r.message.uid
              /\ \A i, j \in 1..n : i < j => uids[i] < uids[j]
              /\ {uids[i] : i \in 1..n} =
                    {u \in hist.held : SeqCount(before, u) = 0}

\* a send left TempHold with two held messages and a duplicated incoming one
C6_Witness ==
    /\ last.op = "Send"
    /\ LeftHold(last.sends[1])
    /\ Len(last.sends[1].out) = 4
    /\ Len(Unwrap(last.sends[1].before).queued_messages) = 2

\* the places of the hold queues that hold the message with uid u
QueuedCount(u) ==
    LET held == {key \in DOMAIN network.links :
                    network.links[key].state = "TempHold"}
        places == {<<key, i>> \in held \X (1..MaxNetSends + MaxMessages) :
                     /\ i <= Len(network.links[key].queued_messages)
                     /\ network.links[key].queued_messages[i].uid = u}
    IN  Cardinality(places)

\* C7 (hold release exactly once): a message appended to a hold queue is either
\* still in that queue, once, and was never output, or it left the queue in the
\* send that took the link out of TempHold and was output exactly once, in that
\* send; the link that left TempHold has no queue.
C7_ReleaseOnce ==
    /\ \A u \in hist.held : QueuedCount(u) + SeqCount(hist.out_uids, u) = 1
    /\ \A k \in DOMAIN last.sends :
         LET r == last.sends[k] IN
         /\ (r.before # None /\ Unwrap(r.before).state = "TempHold" /\ ~LeftHold(r))
                => r.out = <<>>
         /\ LeftHold(r) =>
              /\ Unwrap(r.after).state = "Up"
              /\ \A i \in DOMAIN Unwrap(r.before).queued_messages :
                    SeqCount(OutUids(r.out), Unwrap(r.before).queued_messages[i].uid) = 1

\* a held message was released, once, and a later send, of another message
\* than one the link duplicated, went through the Up link
C7_Witness ==
    /\ last.op = "Send"
    /\ ~LeftHold(last.sends[1])
    /\ last.sends[1].out # <<>>
    /\ \E u \in hist.held :
         /\ SeqCount(hist.out_uids, u) = 1
         /\ \E v \in 1..MaxNetSends : v # last.sends[1].message.uid
                                       /\ SeqCount(hist.out_uids, v) = 2

\* the instants at which handle_event ran
DispatchTimes == {hist.dispatched[k].time : k \in DOMAIN hist.dispatched}

\* C8 (hold release liveness): a message held by a link in TempHold is released
\* once expected_recovery is reached, in a run that continues past that instant:
\* when run() has returned after dispatching an event later than a link's
\* expected_recovery, that link holds no message any more.
C8_HoldReleased ==
    pc # "running" =>
        \A key \in DOMAIN network.links :
            LET link == network.links[key] IN
            (link.state = "TempHold"
                /\ \E t \in DispatchTimes : t > link.expected_recovery)
              => link.queued_messages = <<>>

\* C9 (delay bounds): every delivery intent a Link.send returns, for the
\* incoming message, its duplicate and the released messages, has a delay in
\* [min_message_latency, max_message_latency], and every Message event is in
\* the queue at an instant in [now + min_message_latency,
\* now + max_message_latency] for the now of its push.
C9_DelayBounds ==
    /\ \A k \in DOMAIN last.sends : \A i \in DOMAIN last.sends[k].out :
         /\ config.min_message_latency <= last.sends[k].out[i].delay
         /\ last.sends[k].out[i].delay <= config.max_message_latency
    /\ \A e \in events :
         e.kind = "Message" =>
            /\ e.pushed_at + config.min_message_latency <= e.time
            /\ e.time <= e.pushed_at + config.max_message_latency

\* a send released a held message and duplicated the incoming one, with
\* delays at both ends of the range, and their events are in the queue
C9_Witness ==
    \E k \in DOMAIN last.sends :
        LET r == last.sends[k] IN
        /\ LeftHold(r)
        /\ Len(r.out) >= 3
        /\ \E i, j \in DOMAIN r.out :
             /\ r.out[i].delay = config.min_message_latency
             /\ r.out[j].delay = config.max_message_latency
             /\ r.out[i].message.uid # r.message.uid
        /\ \A i \in DOMAIN r.out :
             \E e \in events : /\ e.kind = "Message"
                               /\ Unwrap(e.message) = r.out[i].message
                               /\ e.time = r.now + r.out[i].delay

\* the instants Ticks were dispatched at, in order
TickTimes ==
    LET ticks == SelectSeq(hist.dispatched, LAMBDA d : d.kind = "Tick")
    IN  [k \in DOMAIN ticks |-> ticks[k].time]

PendingTicks == {e \in events : e.kind = "Tick"}

\* the k-th Tick is dispatched at start_time + (k - 1) * tick_interval
Cadence ==
    \A k \in DOMAIN TickTimes :
        TickTimes[k] = start_time + (k - 1) * config.tick_interval

\* C10 as stated (tick cadence): Ticks are dispatched exactly at the instants
\* start_time + k * tick_interval, k = 0, 1, 2, ... in order with no gap and no
\* repeat, and outside of a Tick dispatch the event queue holds exactly one
\* pending Tick.
C10_TickCadenceAlways ==
    /\ Cadence
    /\ Cardinality(PendingTicks) = 1

\* C10, amended: Ticks are dispatched exactly at the instants
\* start_time + k * tick_interval, k = 0, 1, 2, ... in order with no gap and no
\* repeat; while run() has not returned the queue holds exactly one pending
\* Tick, the next of the cadence, and once run() has returned it holds that
\* Tick unless the returning iteration popped it.
C10_TickCadence ==
    /\ Cadence
    /\ pc = "running" =>
         /\ Cardinality(PendingTicks) = 1
         /\ \A e \in PendingTicks :
              e.time = start_time + Len(TickTimes) * config.tick_interval
    /\ pc # "running" =>
         Cardinality(PendingTicks) =
            IF Unwrap(last.event).kind = "Tick" THEN 0 ELSE 1

\* run() returned on a popped Tick after two or more Ticks were dispatched: no
\* Tick is pending
C10_Witness ==
    /\ pc = "returned_false"
    /\ PendingTicks = {}
    /\ Len(TickTimes) >= 2


\* the events the run loop popped, in order: the dispatched ones, then the
\* one run() returned on
Popped ==
    IF last.op \in {"ReturnTrue", "ReturnFalse"}
    THEN Append(hist.dispatched,
                [time |-> Unwrap(last.event).time, offset |-> Unwrap(last.event).offset,
                 kind |-> Unwrap(last.event).kind])
    ELSE hist.dispatched

MessageEvents(evs) == {e \in evs : e.kind = "Message"}
PoppedMessages == {i \in DOMAIN Popped : Popped[i].kind = "Message"}

\* C12 (reliable network): with mean_time_between_link_failures = None and
\* mean_time_between_partitions = None, every Network.send returns one or two
\* delivery intents, all of them the incoming message (one when the duplicate
\* coin is false, two when it is true); the message is not cut by a partition
\* and its link stays Up, so nothing is dropped or held; every intent is a
\* queue entry until it is popped, and it is popped at most max_message_latency
\* after its send.
C12_ReliableNetwork ==
    (config.mean_time_between_link_failures = None
        /\ config.mean_time_between_partitions = None) =>
    /\ \A i \in DOMAIN last.sends :
         LET r == last.sends[i] IN
         /\ ~r.partitioned
         /\ Len(r.out) \in {1, 2}
         /\ \A k \in DOMAIN r.out : r.out[k].message = r.message
         /\ r.after # None /\ Unwrap(r.after).state = "Up"
         /\ UpOutput(<<>>, r.message, FALSE) = <<r.message>>
         /\ UpOutput(<<>>, r.message, TRUE) = <<r.message, r.message>>
    /\ hist.held = {}
    /\ Len(hist.out_uids) >= total_message_count
    /\ Len(hist.out_uids) <= 2 * total_message_count
    /\ \A uid \in 1..total_message_count : \E k \in DOMAIN hist.out_uids :
         hist.out_uids[k] = uid
    /\ Len(hist.out_uids) = Cardinality(MessageEvents(events)) + Cardinality(PoppedMessages)
    /\ \A e \in MessageEvents(events) : e.time <= e.pushed_at + config.max_message_latency
    /\ last.op = "Message" =>
         last.now <= Unwrap(last.event).pushed_at + config.max_message_latency

\* a message was duplicated, another was not, and a delivery was dispatched
\* max_message_latency after its send
C12_Witness ==
    /\ config.mean_time_between_link_failures = None
    /\ config.mean_time_between_partitions = None
    /\ Len(hist.out_uids) > total_message_count
    /\ Len(hist.out_uids) < 2 * total_message_count
    /\ last.op = "Message"
    /\ last.now = Unwrap(last.event).pushed_at + config.max_message_latency

\* a protocol message the queue or the run loop holds is, field by field, the
\* message a callback emitted under that uid, and some Network.send returned it
WasEmittedAndSent(m) ==
    /\ m.uid \in DOMAIN hist.emitted
    /\ hist.emitted[m.uid] = m
    /\ \E k \in DOMAIN hist.out_uids : hist.out_uids[k] = m.uid

\* the messages of a dispatch come from callbacks of the node or client the
\* dispatched message names, and it was sent before they were
SoundDispatch ==
    last.op = "Message" =>
        LET m == Unwrap(last.event).message[1] IN
        /\ WasEmittedAndSent(m)
        /\ \A i \in DOMAIN last.sends :
             /\ m.uid < last.sends[i].message.uid
             /\ last.sends[i].message.src = m.dst

\* C13 (round-trip soundness): every Message event, pending or dispatched,
\* carries unmodified a protocol message that a tick or process_message call
\* emitted and that an earlier Network.send returned; a dispatch of it changes
\* only the server or client its destination() names, and what that callback
\* emits has this destination as its source.
C13_RoundTripSoundness ==
    [][ /\ (\A e \in MessageEvents(events) : WasEmittedAndSent(e.message[1]))'
        /\ SoundDispatch'
        /\ last'.op = "Message" =>
             LET m == Unwrap(last'.event).message[1] IN
             IF m.dst.tag = "Node"
             THEN /\ clients' = clients
                  /\ \A i \in DOMAIN nodes : i # m.dst.idx + 1 => nodes'[i] = nodes[i]
             ELSE /\ nodes' = nodes
                  /\ \A i \in DOMAIN clients : i # m.dst.idx + 1 => clients'[i] = clients[i]
      ]_vars

\* a server's response that a link held and later released was dispatched to
\* the client
C13_Witness ==
    /\ last.op = "Message"
    /\ Unwrap(last.event).message[1].uid \in hist.held
    /\ Unwrap(last.event).message[1].src.tag = "Node"
    /\ Unwrap(last.event).message[1].dst.tag = "Client"

\* C14 (termination): with tick_interval > 0 and callbacks that emit finitely
\* many messages, run() eventually returns (true or false), and the event queue
\* is never empty while it has not returned.
C14_Termination ==
    /\ [](pc = "running" => events # {})
    /\ (config.tick_interval > 0) => <>(pc \in {"returned_true", "returned_false"})

\* C15 (the loop never aborts): for every configuration construction accepts,
\* any check_invariants_frequency and any destination of an emitted message,
\* no step of the run loop itself aborts.
C15_LoopNeverAborts == pc # "aborted"

\* C16 (NodeId density): construction aborts unless the i-th server reports
\* Server(i) and the i-th client reports Client(i) for every i (so a gap, a
\* duplicate, a wrong order or a wrong tag is rejected), it aborts before any
\* event exists or is processed, and dense lists are accepted.
C16_NodeIdDensity ==
    (last.op = "Ids" /\ pc # "new") =>
        LET dense ==
                /\ \A i \in DOMAIN last.node_ids : last.node_ids[i] = NodeNode(i - 1)
                /\ \A i \in DOMAIN last.client_ids :
                     last.client_ids[i] = NodeClient(i - 1)
        IN  /\ pc = "aborted" <=> ~dense
            /\ pc = "aborted" => (events = {} /\ event_processed_count = 0)
            /\ pc = "running" => (/\ Len(nodes) = Len(last.node_ids)
                                  /\ Len(clients) = Len(last.client_ids))

\* two servers in the wrong order were rejected (every id is there, none twice)
C16_Witness ==
    /\ last.op = "Ids"
    /\ pc = "aborted"
    /\ last.node_ids = <<NodeNode(1), NodeNode(0)>>
    /\ last.client_ids = <<NodeClient(0)>>

\* C17 (crashes disabled): with mean_time_between_failures = None no server
\* wrapper is ever Failed, and recover() is never called (so no user node is
\* ever recovering), for any number of servers and any traffic.
C17_NoCrashes ==
    config.mean_time_between_failures = None =>
        \A i \in DOMAIN nodes :
            /\ nodes[i].state.state = "Normal"
            /\ nodes[i].recover_calls = 0
            /\ ~nodes[i].recovering

\* one of two servers processed a message while the quorum cap would have
\* allowed a crash
C17_Witness ==
    /\ config.mean_time_between_failures = None
    /\ Len(nodes) = 2
    /\ last.op = "Message"
    /\ Unwrap(last.event).message[1].dst.tag = "Node"
    /\ last.now > start_time
    /\ CanAdditionalNodeFail(nodes)

\* the wrapper's last call, made for callback cb, was gated by its state
\* after the state-machine step
Gated(node, cb) ==
    IF node.state.state = "Failed"
    THEN node.calls = <<>>
    ELSE node.calls # <<>> /\ node.calls[Len(node.calls)] = cb

\* C18 (crash gating): after a Tick every server wrapper, and after a Message
\* addressed to a server that wrapper, has invoked the wrapped node exactly when
\* it is not Failed after its state-machine step.  A Failed wrapper's call
\* returns no messages, and a message it was given is dropped: nothing is sent,
\* no event is enqueued, and the popped event is gone from the queue.
C18_CrashGating ==
    [][ /\ last'.op = "Tick" => \A i \in DOMAIN nodes' : Gated(nodes'[i], "tick")
        /\ (last'.op = "Message" /\ Unwrap(last'.event).message[1].dst.tag = "Node") =>
             LET e == Unwrap(last'.event)
                 node == nodes'[e.message[1].dst.idx + 1]
             IN  /\ Gated(node, "process_message")
                 /\ node.state.state = "Failed" =>
                      /\ last'.messages = <<>>
                      /\ last'.sends = <<>>
                      /\ events' = events \ {e}
                      /\ total_event_count' = total_event_count
                      /\ total_message_count' = total_message_count
      ]_vars

\* a message was dispatched to a server that crashed on it, and dropped
C18_Witness ==
    /\ last.op = "Message"
    /\ Unwrap(last.event).message[1].dst.tag = "Node"
    /\ LET node == nodes[Unwrap(last.event).message[1].dst.idx + 1] IN
       /\ node.state.state = "Failed"
       /\ node.calls = <<>>
       /\ last.messages = <<>>
       /\ \E i \in DOMAIN nodes : nodes[i].calls # <<>>

\* server i was called in the step just taken, for callback cb
CalledFor(i, cb) ==
    \/ cb = "tick" /\ last'.op = "Tick"
    \/ /\ cb = "process_message"
       /\ last'.op = "Message"
       /\ Unwrap(last'.event).message[1].dst = NodeNode(i - 1)

\* C19 (recovery): the wrapped node's recover() is called exactly once on each
\* Failed -> Normal transition of a server wrapper and in no other step.  The
\* transition happens only in a tick or process_message call of that wrapper
\* with now >= recovery_time; recover() gets the number of servers as
\* replica_count and comes before the delegated callback of the same call.
C19_RecoverOnRestart ==
    [][ \A i \in DOMAIN nodes :
          IF nodes[i].state.state = "Failed" /\ nodes'[i].state.state = "Normal"
          THEN /\ nodes'[i].recover_calls = nodes[i].recover_calls + 1
               /\ nodes'[i].recovered_with = Len(nodes)
               /\ last'.now >= nodes[i].state.recovery_time
               /\ \E cb \in {"tick", "process_message"} :
                    /\ CalledFor(i, cb)
                    /\ nodes'[i].calls = <<"recover", cb>>
          ELSE /\ nodes'[i].recover_calls = nodes[i].recover_calls
               /\ nodes'[i].recovered_with = nodes[i].recovered_with
               /\ \A k \in DOMAIN nodes'[i].calls :
                    nodes'[i].calls[k] = "recover" => nodes'[i].calls = nodes[i].calls
      ]_vars

\* one of two servers has restarted and was then given the triggering callback
C19_Witness ==
    /\ Len(nodes) = 2
    /\ \E i \in DOMAIN nodes :
         /\ nodes[i].recover_calls = 1
         /\ nodes[i].recovered_with = 2
         /\ nodes[i].state.state = "Normal"
         /\ nodes[i].calls \in {<<"recover", "tick">>, <<"recover", "process_message">>}

\* the servers that are Failed or recovering
NotUpServers == {j \in DOMAIN nodes : nodes[j].state.state = "Failed" \/ nodes[j].recovering}

\* server i is Normal before and Failed after the step
Crashes(i) == nodes[i].state.state = "Normal" /\ nodes'[i].state.state = "Failed"

\* C20 (crash condition): a server wrapper goes Normal -> Failed only in the
\* step that processes a message addressed to it, at an instant
\* now >= failure_time, and only when, just before, the servers that are
\* Failed or recovering are fewer than floor(server_count / 2).  A Tick never
\* moves a server from Normal to Failed.
C20_CrashOnlyOnMessage ==
    [][ \A i \in DOMAIN nodes :
          Crashes(i) =>
             /\ last'.op = "Message"
             /\ Unwrap(last'.event).message[1].dst = NodeNode(i - 1)
             /\ nodes[i].state.failure_time # None
             /\ last'.now >= Unwrap(nodes[i].state.failure_time)
             /\ Cardinality(NotUpServers) < Len(nodes) \div 2
      ]_vars

\* a server that restarted once has crashed again on a message, next to a
\* server that is still Normal
C20_Witness ==
    /\ Len(nodes) = 2
    /\ last.op = "Message"
    /\ Unwrap(last.event).message[1].dst.tag = "Node"
    /\ LET i == Unwrap(last.event).message[1].dst.idx + 1 IN
       /\ nodes[i].state.state = "Failed"
       /\ nodes[i].recover_calls >= 1
       /\ \E j \in DOMAIN nodes : nodes[j].state.state = "Normal"

\* the uids of the messages in the hold queues of the network's links
RECURSIVE QueueUids(_)
QueueUids(q) == IF q = <<>> THEN {} ELSE {Head(q).uid} \cup QueueUids(Tail(q))
HeldUids(net) ==
    UNION {QueueUids(ReleaseQueue(net.links[k])) : k \in DOMAIN net.links}

\* the uids among the first n entries of a sequence of uids
UidsOf(uids) == {uids[i] : i \in DOMAIN uids}

\* the partition state after one advance at instant now
Advanced(before, after, now) ==
    IF before.state = "Normal"
    THEN IF before.expected_partition # None /\ now >= Unwrap(before.expected_partition)
         THEN after.state = "Partition"
         ELSE after = before
    ELSE IF now >= before.expected_recovery
         THEN after.state = "Normal"
         ELSE after = before

\* the send r crosses the boundary of side_A of the partition state ps
CrossesCut(ps, r) ==
    /\ ps.state = "Partition"
    /\ (r.message.src \in ps.partioned_nodes) # (r.message.dst \in ps.partioned_nodes)

\* C21 (partitioned send): Network.send first advances the partition state.
\* It drops the message as partitioned exactly when the resulting state is
\* Partition and exactly one of source and destination is in side_A: it then
\* returns no delivery intent, creates no link and leaves every link as it
\* was; otherwise the message goes to the link of the pair.  No message
\* dropped as partitioned is ever in a hold queue or in a delivery intent.
C21_PartitionedSendDrops ==
    [][ LET r == last'.sends[1]
            ps == network'.partitioning.partition_state
        IN  /\ Advanced(network.partitioning.partition_state, ps, r.now)
            /\ IF CrossesCut(ps, r)
               THEN /\ r.out = <<>>
                    /\ network'.links = network.links
                    /\ r.message.uid \in hist'.cut
               ELSE /\ \E k \in DOMAIN network'.links :
                          {k[1], k[2]} = {r.message.src, r.message.dst}
                    /\ r.message.uid \notin hist'.cut
            /\ hist'.cut \cap (UidsOf(hist'.out_uids) \cup HeldUids(network')) = {}
      ]_vars

\* the last send was dropped as partitioned while a link held a message in
\* its queue
C21_Witness ==
    /\ last.op = "Send"
    /\ CrossesCut(network.partitioning.partition_state, last.sends[1])
    /\ last.sends[1].out = <<>>
    /\ HeldUids(network) # {}
    /\ last.sends[1].message.uid \notin HeldUids(network)

\* the scheduled instant of link state b is reached at instant now
Due(b, now) ==
    IF b.state = "Up"
    THEN b.expected_failure # None /\ now >= Unwrap(b.expected_failure)
    ELSE now >= b.expected_recovery

\* the send r output its incoming message
Delivered(r) == SeqCount(OutUids(r.out), r.message.uid) >= 1

\* the send r found the link in state b and left it in state a after at most
\* one transition, and treated its message by a
TreatedByNewState(r, b, a) ==
    /\ b.state = "Up" /\ Due(b, r.now) =>
         /\ a.state \in {"TempHold", "TempFailure"}
         /\ a.state = "TempHold" => a.queued_messages = <<r.message>>
         /\ r.out = <<>>
    /\ b.state = "Up" /\ ~Due(b, r.now) =>
         /\ a = b
         /\ Delivered(r)
    /\ b.state = "TempFailure" /\ ~Due(b, r.now) =>
         /\ a = b
         /\ r.out = <<>>
    /\ b.state = "TempHold" /\ ~Due(b, r.now) =>
         /\ a = [b EXCEPT !.queued_messages = Append(@, r.message)]
         /\ r.out = <<>>
    /\ b.state # "Up" /\ Due(b, r.now) =>
         /\ a.state = "Up"
         /\ Delivered(r)
         /\ Len(r.out) >= Len(ReleaseQueue(b)) + 1
         /\ \A i \in DOMAIN ReleaseQueue(b) : r.out[i].message = ReleaseQueue(b)[i]

\* C22 (link handling of the incoming message): one Link.send makes at most
\* one state transition and treats the incoming message by the resulting
\* state.  The send that finds expected_failure reached is held or dropped and
\* not delivered by that call; a send in TempFailure before expected_recovery
\* is dropped and the state stays; the send that finds expected_recovery
\* reached is delivered together with the released messages; a send through a
\* new link is delivered if the link is Up after it and held or dropped
\* otherwise.  A dropped message is in no hold queue and in no later output.
C22_IncomingByNewState ==
    /\ \A k \in DOMAIN last.sends :
         LET r == last.sends[k] IN
         (~r.partitioned) =>
            /\ r.after # None
            /\ r.before # None => TreatedByNewState(r, Unwrap(r.before), Unwrap(r.after))
            /\ r.before = None =>
                 IF Unwrap(r.after).state = "Up" THEN Delivered(r) ELSE r.out = <<>>
            /\ Unwrap(r.after).state = "TempFailure" => r.message.uid \in hist.lost
    /\ hist.lost \cap (UidsOf(hist.out_uids) \cup HeldUids(network)) = {}

\* a message was dropped earlier, and the last send found expected_recovery
\* reached: it was delivered behind a released message although the fresh Up
\* state's expected_failure is already reached
C22_Witness ==
    /\ last.op = "Send"
    /\ hist.lost # {}
    /\ LET r == last.sends[1] IN
       /\ r.before # None
       /\ Unwrap(r.before).state = "TempHold"
       /\ Unwrap(r.before).queued_messages # <<>>
       /\ Due(Unwrap(r.before), r.now)
       /\ Unwrap(r.after).state = "Up"
       /\ Due(Unwrap(r.after), r.now)
       /\ Delivered(r)

\* the keys of links whose link joins the endpoints of message m
KeysOf(links, m) == {k \in DOMAIN links : {k[1], k[2]} = {m.src, m.dst}}

\* C23 (one link per pair): the links map holds at most one Link per
\* unordered pair of nodes.  A send that is not partitioned uses the Link of
\* its unordered pair whatever its direction, continuing from that Link's
\* state and hold queue, and creates it only when the pair has none; no send
\* removes a Link or changes the Link of another pair.
C23_OneLinkPerPair ==
    [][ LET r == last'.sends[1]
            old == KeysOf(network.links, r.message)
            new == KeysOf(network'.links, r.message)
        IN  /\ \A k1, k2 \in DOMAIN network'.links :
                  {k1[1], k1[2]} = {k2[1], k2[2]} => k1 = k2
            /\ DOMAIN network.links \subseteq DOMAIN network'.links
            /\ DOMAIN network'.links \ DOMAIN network.links \subseteq new
            /\ \A k \in DOMAIN network.links \ old : network'.links[k] = network.links[k]
            /\ r.partitioned => network'.links = network.links
            /\ (~r.partitioned) => Cardinality(new) = 1
            /\ (~r.partitioned) =>
                 \A k \in old : /\ new = {k}
                                /\ TreatedByNewState(r, network.links[k], network'.links[k])
      ]_vars

\* the one link of the pair holds a message of each direction in its queue
C23_Witness ==
    /\ DOMAIN network.links = {<<NodeNode(0), NodeClient(0)>>}
    /\ LET l == network.links[<<NodeNode(0), NodeClient(0)>>] IN
       /\ l.state = "TempHold"
       /\ Len(l.queued_messages) = 2
       /\ l.queued_messages[1].src = l.queued_messages[2].dst
       /\ l.queued_messages[1].dst = l.queued_messages[2].src
       /\ l.queued_messages[1].src # l.queued_messages[1].dst

\* the instant link state l is scheduled to change at (l has one)
ScheduledLink(l) ==
    IF l.state = "Up" THEN Unwrap(l.expected_failure) ELSE l.expected_recovery

\* the eager link: the states at instant now of a link that was l and that has
\* made each transition of check_state_transition at the very instant it was
\* scheduled for, every sampled duration being positive
RECURSIVE EagerLink(_, _, _)
EagerLink(l, now, cfg) ==
    IF ~Due(l, now) THEN {l}
    ELSE LET at == ScheduledLink(l)
             next == {t.link : t \in CheckStateTransition(l, at, cfg)}
         IN  UNION {EagerLink(n, now, cfg) : n \in {x \in next : ~Due(x, at)}}

\* the instant partition state ps is scheduled to change at, and whether it is
\* reached
PartitionDue(ps, now) ==
    IF ps.state = "Normal"
    THEN ps.expected_partition # None /\ now >= Unwrap(ps.expected_partition)
    ELSE now >= ps.expected_recovery
ScheduledPartition(ps) ==
    IF ps.state = "Normal" THEN Unwrap(ps.expected_partition) ELSE ps.expected_recovery

\* the eager partition, in the same way
RECURSIVE EagerPartition(_, _, _, _)
EagerPartition(ps, known, now, cfg) ==
    IF ~PartitionDue(ps, now) THEN {ps}
    ELSE LET at == ScheduledPartition(ps)
             next == CheckPartitionStateTransition(ps, known, at, cfg)
         IN  UNION {EagerPartition(n, known, now, cfg) :
                      n \in {x \in next : ~PartitionDue(x, at)}}

\* what a link in state l does with an incoming message
Outcomes(l, m, cfg) ==
    {IF x.out # <<>> THEN "delivered"
     ELSE IF x.link.state = "TempHold" THEN "held" ELSE "dropped" :
        x \in ApplyIncoming(l, <<>>, m, cfg)}

\* C24 (lazy is eager): every outcome a message sent at instant now can have
\* when the Partition and the Link of its pair have changed state at the very
\* instants they were scheduled for is an outcome Network.send can give it from
\* the states it finds: cut or not by the partition, and delivered, held or
\* dropped by the link.
C24_LazyIsEager ==
    \A k \in DOMAIN last.sends :
        LET r == last.sends[k]
            m == r.message
            eager_cut == {StateIsPartitioned(p, m.src, m.dst) :
                            p \in EagerPartition(r.partition_before, Known, r.now, config)}
            lazy_cut == {StateIsPartitioned(p, m.src, m.dst) :
                            p \in CheckPartitionStateTransition(r.partition_before, Known,
                                                                r.now, config)}
        IN  /\ eager_cut \subseteq lazy_cut
            /\ r.before # None =>
                 UNION {Outcomes(l, m, config) :
                          l \in EagerLink(Unwrap(r.before), r.now, config)}
                 \subseteq
                 UNION {Outcomes(t.link, m, config) :
                          t \in CheckStateTransition(Unwrap(r.before), r.now, config)}

\* C25 (side_A is non-trivial): in every Partition state, whatever the number
\* N >= 1 of known NodeIds, side_A is a non-empty set of known NodeIds of a
\* size between 1 and N.
C25_SideNonTrivial ==
    LET ps == network.partitioning.partition_state IN
    ps.state = "Partition" =>
        /\ ps.partioned_nodes # {}
        /\ ps.partioned_nodes \subseteq {Known[i] : i \in DOMAIN Known}
        /\ Cardinality(ps.partioned_nodes) \in 1..Len(Known)

\* run() has returned
Returned == pc \in {"returned_true", "returned_false"}

\* the numbers n of the popped events the stride selects among the first
\* `dispatched` ones, in order
StrideNumbers(dispatched, frequency) ==
    [i \in 1..(dispatched \div frequency) |-> i * frequency]

\* C26 (invariant-check stride): the n-th popped event (n from 1) is followed
\* by a call of the invariant checker exactly when it was dispatched and
\* n mod check_invariants_frequency = 0, and the call comes before the
\* messages the event emitted are sent.  The checker is called once more in
\* the iteration that returns true and not in the one that returns false.
C26_InvariantStride ==
    LET checks == hist.invariant_checks
        dispatched == Len(hist.dispatched)
        frequency == config.check_invariants_frequency
    IN  /\ event_processed_count = dispatched + (IF Returned THEN 1 ELSE 0)
        /\ [i \in DOMAIN checks |-> checks[i].n] =
              StrideNumbers(dispatched, frequency) \o
              (IF pc = "returned_true" THEN <<event_processed_count>> ELSE <<>>)
        /\ (last.op \in {"Tick", "Message"} /\ dispatched % frequency = 0) =>
              checks[Len(checks)].sent = total_message_count - Len(last.sends)
        /\ \A i, j \in DOMAIN checks : i < j => checks[i].sent <= checks[j].sent

\* with a frequency of 2, the fourth popped event was dispatched and emitted a
\* message: the checker ran after the second and the fourth, before the send
C26_Witness ==
    /\ config.check_invariants_frequency = 2
    /\ pc = "running"
    /\ event_processed_count = 4
    /\ Len(last.sends) = 1
    /\ Len(hist.invariant_checks) = 2
    /\ hist.invariant_checks[2].sent = total_message_count - 1

\* the send r of a self-addressed message went through the link keyed
\* (from, from) by the ordinary rules of Link.send
LoopThroughLink(r, net) ==
    LET m == r.message IN
    /\ ~CrossesCut(r.partition_after, r)
    /\ m.uid \notin hist'.cut
    /\ KeysOf(net.links, m) = {<<m.src, m.src>>}
    /\ r.after = Some(net.links[<<m.src, m.src>>])
    /\ r.before # None => TreatedByNewState(r, Unwrap(r.before), Unwrap(r.after))
    /\ r.before = None =>
         IF Unwrap(r.after).state = "Up" THEN Delivered(r) ELSE r.out = <<>>

\* every delivery intent of the send r became an event of the queue, stamped
\* with the instant of the send and due after the intent's delay
Enqueued(r, evs) ==
    \A i \in DOMAIN r.out :
        /\ r.out[i].delay \in config.min_message_latency..config.max_message_latency
        /\ \E e \in evs : /\ e.kind = "Message"
                          /\ Unwrap(e.message) = r.out[i].message
                          /\ e.pushed_at = r.now
                          /\ e.time = r.now + r.out[i].delay

\* C27 (self-loops): a message whose source is its destination is never
\* dropped as partitioned; it goes through the one Link keyed (from, from)
\* with the link's ordinary handling (delivered with a delay, duplicated,
\* held, dropped); each of its delivery intents is put into the event queue,
\* and the iteration that dispatches it is a later one than the iteration
\* that sent it.
C27_SelfLoops ==
    [][ /\ \A k \in DOMAIN last'.sends :
             LET r == last'.sends[k] IN
             r.message.src = r.message.dst =>
                /\ LoopThroughLink(r, IF k = Len(last'.sends) THEN network'
                                      ELSE [network' EXCEPT
                                              !.links[<<r.message.src, r.message.src>>] =
                                                  Unwrap(r.after)])
                /\ Enqueued(r, events')
        /\ last'.op = "Message" =>
             LET e == Unwrap(last'.event) IN
             e.message[1].src = e.message[1].dst =>
                /\ e \in events
                /\ e.message[1].uid <= total_message_count
                /\ e.pushed_at <= last.now
      ]_vars

\* a self-addressed message that a link had held was released with delay 0
\* and dispatched at the instant of its release, in a later iteration
C27_Witness ==
    /\ last.op = "Message"
    /\ LET e == Unwrap(last.event) IN
       /\ e.message[1].src = e.message[1].dst
       /\ e.message[1].uid \in hist.held
       /\ e.time = e.pushed_at
       /\ network.partitioning.partition_state.state = "Partition"

\* C28 (message identity): every Message event of the queue carries, as its
\* message_id, the number its protocol message was given when it was emitted
\* and passed to Network.send (the uid of the message), also when the message
\* comes out of a hold queue.
C28_MessageIdentity ==
    \A e \in events : e.kind = "Message" => e.id = Unwrap(e.message).uid

\* the known NodeIds, as a set
KnownSet == {Known[i] : i \in DOMAIN Known}

\* C29 (the first known node): the first known NodeId is never in side_A, so
\* with two or more known NodeIds side_A is a proper subset of them; a message
\* between two nodes other than the first is dropped as partitioned exactly
\* when exactly one of the two is in side_A, and a message between the first
\* node and another exactly when the other is in side_A.
C29_FirstNodeOutside ==
    LET ps == network.partitioning.partition_state
        first == Known[1]
    IN  /\ ps.state = "Partition" =>
             /\ first \notin ps.partioned_nodes
             /\ ps.partioned_nodes \subseteq KnownSet \ {first}
             /\ Len(Known) >= 2 => ps.partioned_nodes # KnownSet
        /\ \A k \in DOMAIN last.sends :
             LET r == last.sends[k]
                 in_a == IF ps.state = "Partition" THEN ps.partioned_nodes ELSE {}
             IN  IF r.message.src # first /\ r.message.dst # first
                 THEN r.out = <<>> <=> (r.message.src \in in_a) # (r.message.dst \in in_a)
                 ELSE r.out = <<>> <=> ({r.message.src, r.message.dst} \cap in_a # {})

\* of three known nodes the two other than the first are both in side_A, and
\* a message between them went through
C29_Witness ==
    /\ Len(Known) = 3
    /\ network.partitioning.partition_state.state = "Partition"
    /\ network.partitioning.partition_state.partioned_nodes = {Known[2], Known[3]}
    /\ last.op = "Send"
    /\ last.sends[1].message.src = Known[2]
    /\ last.sends[1].message.dst = Known[3]
    /\ last.sends[1].out # <<>>
=============================================================================
